---- MODULE Spec2Model ----
(***************************************************************************)
(* Join planning of noria-server (controller/sql/mir/join.rs): make_joins  *)
(* walks qg.join_order, resolving each JoinRef against qg.edges and either *)
(* merging two JoinChains behind a new join node or putting the chain back.*)
(***************************************************************************)
EXTENDS Integers, Sequences, FiniteSets, TLC

VARIABLES
    edges,          \* qg.edges: map keyed by the ordered pair (src, dst)
    node_for_rel,   \* leaf node for each known relation
    start_count,    \* the node_count argument of make_joins
    pc,             \* "loop" | "done" | "panicked" | "merge_test"
    jrefs,          \* the prefix of qg.join_order the loop has taken so far
    outcomes,       \* how each taken reference ended, parallel to jrefs
    join_chains,    \* Vec<JoinChain>
    join_nodes,     \* Vec<MirNodeRef>
    node_count,     \* the local counter
    result,         \* the value make_joins returned: None until it returns
    created_at,     \* for every created node, the position of its reference
    margs,          \* arguments of a direct merge_chain call
    merged          \* the last merge_chain call: its arguments and result

vars == <<edges, node_for_rel, start_count, pc, jrefs, outcomes, join_chains,
          join_nodes, node_count, result, created_at, margs, merged>>

----------------------------------------------------------------------------
(* Bounds *)

MaxRefs == 3        \* longest join order explored
MaxStart == 1       \* largest caller-supplied counter
MaxIndex == 1       \* largest predicate index in a reference

Rels == {"A", "B", "C"}
PlanName == "q"

None == <<>>
Some(x) == <<x>>

----------------------------------------------------------------------------
(* Nodes.  A MirNodeRef is a shared handle; a node is identified with its *)
(* content: name, operator, and the handles of its ancestors.             *)

LeafName(rel) ==
    CASE rel = "A" -> "a"
      [] rel = "B" -> "b"
      [] rel = "C" -> "c"

BaseNode(rel) ==
    [name |-> LeafName(rel), inner |-> "Base", kind |-> "-", jp |-> None,
     ancestors |-> <<>>]

make_join_node(name, jp, left_node, right_node, kind) ==
    [name |-> name, inner |-> "Join", kind |-> kind, jp |-> Some(jp),
     ancestors |-> <<left_node, right_node>>]

(* format!("{}", n) for a usize: its decimal digits. *)
Digit(d) ==
    CASE d = 0 -> "0" [] d = 1 -> "1" [] d = 2 -> "2" [] d = 3 -> "3"
      [] d = 4 -> "4" [] d = 5 -> "5" [] d = 6 -> "6" [] d = 7 -> "7"
      [] d = 8 -> "8" [] d = 9 -> "9"

RECURSIVE usize_to_string(_)
usize_to_string(n) ==
    IF n < 10 THEN Digit(n)
    ELSE usize_to_string(n \div 10) \o Digit(n % 10)

(* format!("{}_n{}", name, node_count) *)
node_name(name, count) == name \o "_n" \o usize_to_string(count)

----------------------------------------------------------------------------
(* JoinChain *)

JoinChain(tables, last_node) == [tables |-> tables, last_node |-> last_node]

merge_chain_keep_self(self, other, last_node) ==
    JoinChain(self.tables, last_node)

merge_chain_drop_common(self, other, last_node) ==
    JoinChain((self.tables \ other.tables) \cup (other.tables \ self.tables),
              last_node)

merge_chain_keep_other(self, other, last_node) ==
    JoinChain(other.tables, last_node)

merge_chain_old_node(self, other, last_node) ==
    JoinChain(self.tables \cup other.tables, self.last_node)

merge_chain(self, other, last_node) ==
    JoinChain(self.tables \cup other.tables, last_node)

has_table_multi(chain, table) ==
    table \in chain.tables /\ Cardinality(chain.tables) > 1

has_table(chain, table) == table \in chain.tables

----------------------------------------------------------------------------
(* Vec operations used on join_chains and join_nodes (positions 1-based). *)

push_front(v, x) == <<x>> \o v

push_lost(v, x) == v

push(v, x) == Append(v, x)

position_none(v, table) == None

(* iter().position(|chain| chain.has_table(t)): first match, or None *)
position(v, table) ==
    LET hits == {i \in DOMAIN v : has_table(v[i], table)}
    IN  IF hits = {} THEN None
        ELSE Some(CHOOSE i \in hits : \A j \in hits : i <= j)

swap_remove_keep(v, idx) == v

swap_remove_pop(v, idx) == SubSeq(v, 1, Len(v) - 1)

swap_remove_first(v, idx) == SubSeq(v, 2, Len(v))

(* the vector after swap_remove(idx): the last element takes the hole *)
swap_remove(v, idx) ==
    LET n == Len(v)
    IN  IF idx = n THEN SubSeq(v, 1, n - 1)
        ELSE [SubSeq(v, 1, n - 1) EXCEPT ![idx] = v[n]]

----------------------------------------------------------------------------
(* The query graph. *)

JoinRef(src, dst, index) == [src |-> src, dst |-> dst, index |-> index]

JoinRefs == {JoinRef(s, d, i) : s \in Rels, d \in Rels, i \in 0..MaxIndex}

(* the condition tree stored as the i-th predicate of the entry at key *)
Cond(key, i) == <<key[1], key[2], i>>

JoinEdge(key, n) == [kind |-> "Join", jps |-> [i \in 1..n |-> Cond(key, i - 1)]]
LeftJoinEdge(key, n) ==
    [kind |-> "LeftJoin", jps |-> [i \in 1..n |-> Cond(key, i - 1)]]
GroupByEdge == [kind |-> "GroupBy", jps |-> <<>>]

Before(x, y) == <<x, y>> \in {<<"A", "B">>, <<"A", "C">>, <<"B", "C">>}

EdgeDomains ==
    { {<<"A", "B">>},
      {<<x, y>> \in Rels \X Rels : x = y \/ Before(x, y)},
      Rels \X Rels }

AllInner(key) == JoinEdge(key, 1)
LeftToC(key) ==
    IF key[2] = "C" /\ key[1] # "C" THEN LeftJoinEdge(key, 2)
    ELSE JoinEdge(key, 1)
GroupByAC(key) ==
    IF {key[1], key[2]} = {"A", "C"} THEN GroupByEdge ELSE JoinEdge(key, 1)

QueryGraphs ==
    UNION { { [key \in D |-> AllInner(key)],
              [key \in D |-> LeftToC(key)],
              [key \in D |-> GroupByAC(key)] } : D \in EdgeDomains }

Panic(why) == [panic |-> TRUE, why |-> why]

from_join_ref_default(jref, qg_edges) ==
    LET key == <<jref.src, jref.dst>>
    IN  IF key \notin DOMAIN qg_edges THEN Panic("no_edge")
        ELSE LET edge == qg_edges[key]
             IN  IF edge.kind = "GroupBy"
                 THEN [panic |-> FALSE, join_type |-> "Inner",
                       jp |-> Cond(key, jref.index)]
                 ELSE IF jref.index + 1 \notin DOMAIN edge.jps
                      THEN Panic("no_pred")
                 ELSE [panic |-> FALSE,
                       join_type |-> IF edge.kind = "Join" THEN "Inner"
                                     ELSE "Left",
                       jp |-> edge.jps[jref.index + 1]]

(* qg.edges.get(&(src, dst)).unwrap(), then jps.get(index).unwrap() *)
from_join_ref(jref, qg_edges) ==
    LET key == <<jref.src, jref.dst>>
    IN  IF key \notin DOMAIN qg_edges THEN Panic("no_edge")
        ELSE LET edge == qg_edges[key]
             IN  IF edge.kind = "GroupBy" THEN Panic("group_by")
                 ELSE IF jref.index + 1 \notin DOMAIN edge.jps
                      THEN Panic("no_pred")
                 ELSE [panic |-> FALSE,
                       join_type |-> IF edge.kind = "Join" THEN "Inner"
                                     ELSE "Left",
                       jp |-> edge.jps[jref.index + 1]]

----------------------------------------------------------------------------
(* pick_join_chains: the chains selected for src and dst, and join_chains  *)
(* as the call leaves it.                                                  *)

index_or_placeholder(nfr, rel) ==
    IF rel \in DOMAIN nfr THEN Some(nfr[rel]) ELSE Some(BaseNode(rel))

(* node_for_rel[rel]: None stands for the panic of Index on a missing key *)
index_node(nfr, rel) ==
    IF rel \in DOMAIN nfr THEN Some(nfr[rel]) ELSE None

pick_join_chains_stale(src, dst, chains, nfr) ==
    LET lpos == position(chains, src)
        lleaf == index_node(nfr, src)
        after_left == IF lpos # None THEN swap_remove(chains, lpos[1])
                      ELSE chains
    IN  IF lpos = None /\ lleaf = None
        THEN [panic |-> TRUE, why |-> "no_src", join_chains |-> chains]
        ELSE
        LET left_chain == IF lpos # None THEN chains[lpos[1]]
                          ELSE JoinChain({src}, lleaf[1])
        IN  IF has_table(left_chain, dst)
            THEN [panic |-> FALSE, left_chain |-> left_chain,
                  second_chain |-> None, join_chains |-> after_left]
            ELSE
            LET rpos == position(chains, dst)
                rleaf == index_node(nfr, dst)
            IN  IF rpos = None /\ rleaf = None
                THEN [panic |-> TRUE, why |-> "no_dst",
                      join_chains |-> after_left]
                ELSE IF rpos # None /\ rpos[1] \notin DOMAIN after_left
                THEN [panic |-> TRUE, why |-> "no_dst",
                      join_chains |-> after_left]
                ELSE
                [panic |-> FALSE, left_chain |-> left_chain,
                 second_chain |->
                    Some(IF rpos # None THEN after_left[rpos[1]]
                         ELSE JoinChain({dst}, rleaf[1])),
                 join_chains |->
                    IF rpos # None THEN swap_remove(after_left, rpos[1])
                    ELSE after_left]

pick_join_chains(src, dst, chains, nfr) ==
    LET lpos == position(chains, src)
        lleaf == index_node(nfr, src)
        after_left == IF lpos # None THEN swap_remove(chains, lpos[1])
                      ELSE chains
    IN  IF lpos = None /\ lleaf = None
        THEN [panic |-> TRUE, why |-> "no_src", join_chains |-> chains]
        ELSE
        LET left_chain == IF lpos # None THEN chains[lpos[1]]
                          ELSE JoinChain({src}, lleaf[1])
        IN  IF has_table(left_chain, dst)
            THEN [panic |-> FALSE, left_chain |-> left_chain,
                  second_chain |-> None, join_chains |-> after_left]
            ELSE
            LET rpos == position(after_left, dst)
                rleaf == index_node(nfr, dst)
            IN  IF rpos = None /\ rleaf = None
                THEN [panic |-> TRUE, why |-> "no_dst",
                      join_chains |-> after_left]
                ELSE
                [panic |-> FALSE, left_chain |-> left_chain,
                 second_chain |->
                    Some(IF rpos # None THEN after_left[rpos[1]]
                         ELSE JoinChain({dst}, rleaf[1])),
                 join_chains |->
                    IF rpos # None THEN swap_remove(after_left, rpos[1])
                    ELSE after_left]

----------------------------------------------------------------------------
(* make_joins *)

Init ==
    /\ edges \in QueryGraphs
    /\ node_for_rel \in { [r \in D |-> BaseNode(r)] : D \in SUBSET Rels }
    /\ start_count \in 0..MaxStart
    /\ pc = "loop"
    /\ jrefs = <<>>
    /\ outcomes = <<>>
    /\ join_chains = <<>>
    /\ join_nodes = <<>>
    /\ node_count = start_count
    /\ result = None
    /\ created_at = {}
    /\ margs = None
    /\ merged = None

Inputs == <<edges, node_for_rel, start_count, margs>>

Take(jref) ==
    /\ pc = "loop"
    /\ Len(jrefs) < MaxRefs
    /\ jrefs' = Append(jrefs, jref)

(* from_join_ref panics: no entry for the key, no predicate at the index, *)
(* or a group-by edge.                                                    *)
RefPanics(jref) ==
    /\ Take(jref)
    /\ from_join_ref(jref, edges).panic
    /\ pc' = "panicked"
    /\ outcomes' = Append(outcomes, from_join_ref(jref, edges).why)
    /\ UNCHANGED <<Inputs, join_chains, join_nodes, node_count, result,
                   created_at, merged>>

(* pick_join_chains panics on a relation that has no leaf node *)
PickPanics(jref) ==
    LET picked == pick_join_chains(jref.src, jref.dst, join_chains,
                                   node_for_rel)
    IN  /\ Take(jref)
        /\ ~from_join_ref(jref, edges).panic
        /\ picked.panic
        /\ pc' = "panicked"
        /\ outcomes' = Append(outcomes, picked.why)
        /\ join_chains' = picked.join_chains
        /\ UNCHANGED <<Inputs, join_nodes, node_count, result, created_at,
                       merged>>

next_count_same(count) == count

next_count(count) == count + 1

match_second_chain_swapped(resolved, picked, nodes, count) ==
    IF picked.second_chain = None
    THEN [jn |-> None,
          join_chains |-> push(picked.join_chains, picked.left_chain),
          join_nodes |-> nodes,
          node_count |-> count]
    ELSE LET left_chain == picked.left_chain
             right_chain == picked.second_chain[1]
             jn == make_join_node(node_name(PlanName, count), resolved.jp,
                                  right_chain.last_node,
                                  left_chain.last_node, resolved.join_type)
             new_chain == merge_chain(left_chain, right_chain, jn)
         IN  [jn |-> Some(jn),
              new_chain |-> new_chain,
              join_chains |-> push(picked.join_chains, new_chain),
              join_nodes |-> push(nodes, jn),
              node_count |-> next_count(count)]

(* The match on second_chain for a reference whose edge resolved and whose *)
(* chains were picked: the node built (if any) and the chains, output and  *)
(* counter the iteration leaves.                                           *)
match_second_chain(resolved, picked, nodes, count) ==
    IF picked.second_chain = None
    THEN [jn |-> None,
          join_chains |-> push(picked.join_chains, picked.left_chain),
          join_nodes |-> nodes,
          node_count |-> count]
    ELSE LET left_chain == picked.left_chain
             right_chain == picked.second_chain[1]
             jn == make_join_node(node_name(PlanName, count), resolved.jp,
                                  left_chain.last_node,
                                  right_chain.last_node, resolved.join_type)
             new_chain == merge_chain(left_chain, right_chain, jn)
         IN  [jn |-> Some(jn),
              new_chain |-> new_chain,
              join_chains |-> push(picked.join_chains, new_chain),
              join_nodes |-> push(nodes, jn),
              node_count |-> next_count(count)]

AlreadyConnected_lazy(jref) ==
    LET resolved == from_join_ref(jref, edges)
        picked == pick_join_chains(jref.src, jref.dst, join_chains,
                                   node_for_rel)
        step == match_second_chain(resolved, picked, join_nodes, node_count)
    IN  /\ Take(jref)
        /\ ~picked.panic
        /\ picked.second_chain = None
        /\ join_chains' = step.join_chains
        /\ join_nodes' = step.join_nodes
        /\ node_count' = step.node_count
        /\ outcomes' = Append(outcomes, "short")
        /\ UNCHANGED <<Inputs, pc, result, created_at, merged>>

(* second_chain is None: the chain goes back *)
AlreadyConnected(jref) ==
    LET resolved == from_join_ref(jref, edges)
        picked == pick_join_chains(jref.src, jref.dst, join_chains,
                                   node_for_rel)
        step == match_second_chain(resolved, picked, join_nodes, node_count)
    IN  /\ Take(jref)
        /\ ~resolved.panic
        /\ ~picked.panic
        /\ picked.second_chain = None
        /\ join_chains' = step.join_chains
        /\ join_nodes' = step.join_nodes
        /\ node_count' = step.node_count
        /\ outcomes' = Append(outcomes, "short")
        /\ UNCHANGED <<Inputs, pc, result, created_at, merged>>

(* second_chain is Some(right_chain): build the node, merge the chains *)
MergeChains(jref) ==
    LET resolved == from_join_ref(jref, edges)
        picked == pick_join_chains(jref.src, jref.dst, join_chains,
                                   node_for_rel)
        step == match_second_chain(resolved, picked, join_nodes, node_count)
    IN  /\ Take(jref)
        /\ ~resolved.panic
        /\ ~picked.panic
        /\ picked.second_chain # None
        /\ join_chains' = step.join_chains
        /\ join_nodes' = step.join_nodes
        /\ node_count' = step.node_count
        /\ created_at' =
              created_at \cup {[node |-> step.jn[1], pos |-> Len(jrefs) + 1]}
        /\ merged' = Some([self |-> picked.left_chain,
                           other |-> picked.second_chain[1],
                           node |-> step.jn[1], out |-> step.new_chain])
        /\ outcomes' = Append(outcomes, "merge")
        /\ UNCHANGED <<Inputs, pc, result>>

(* the join order is exhausted: make_joins returns join_nodes *)
Return ==
    /\ pc = "loop"
    /\ pc' = "done"
    /\ result' = Some(join_nodes)
    /\ UNCHANGED <<Inputs, jrefs, outcomes, join_chains, join_nodes,
                   node_count, created_at, merged>>

make_joins ==
    \/ \E jref \in JoinRefs : RefPanics(jref)
    \/ \E jref \in JoinRefs : PickPanics(jref)
    \/ \E jref \in JoinRefs : AlreadyConnected(jref)
    \/ \E jref \in JoinRefs : MergeChains(jref)
    \/ Return

Next == make_joins

Spec == Init /\ [][Next]_vars

----------------------------------------------------------------------------
(* A direct call of merge_chain on arbitrary chains, as the unit test does. *)

TestNodes == {BaseNode(r) : r \in Rels}

TestChains == {JoinChain(t, n) : t \in SUBSET Rels, n \in TestNodes}

InitMerge ==
    /\ edges = << >>
    /\ node_for_rel = << >>
    /\ start_count = 0
    /\ pc = "merge_test"
    /\ jrefs = <<>>
    /\ outcomes = <<>>
    /\ join_chains = <<>>
    /\ join_nodes = <<>>
    /\ node_count = 0
    /\ result = None
    /\ created_at = {}
    /\ margs \in {Some([self |-> s, other |-> o, node |-> n]) :
                    s \in TestChains, o \in TestChains, n \in TestNodes}
    /\ merged = None

CallMergeChain ==
    /\ pc = "merge_test"
    /\ merged = None
    /\ merged' = Some([self |-> margs[1].self, other |-> margs[1].other,
                       node |-> margs[1].node,
                       out |-> merge_chain(margs[1].self, margs[1].other,
                                           margs[1].node)])
    /\ UNCHANGED <<Inputs, pc, jrefs, outcomes, join_chains, join_nodes,
                   node_count, result, created_at>>

NextMerge == CallMergeChain

SpecMerge == InitMerge /\ [][NextMerge]_vars

----------------------------------------------------------------------------
(* Properties *)

Pair(jref) == <<jref.src, jref.dst>>

(* C1: with A and B in the leaf map, one inner-join edge A-B carrying one  *)
(* predicate and start counter 0, the join order                           *)
(* [(A,B,0), (A,B,0), (B,A,0)] is processed to the end and make_joins      *)
(* returns exactly one node.                                               *)
C1Order == <<JoinRef("A", "B", 0), JoinRef("A", "B", 0), JoinRef("B", "A", 0)>>

C1Scenario ==
    /\ edges = [key \in {<<"A", "B">>} |-> JoinEdge(key, 1)]
    /\ {"A", "B"} \subseteq DOMAIN node_for_rel
    /\ start_count = 0

C1_PlanReturnsOneNode ==
    (C1Scenario /\ jrefs = C1Order) =>
        /\ pc # "panicked"
        /\ pc = "done" => Len(result[1]) = 1

(* C2: once a reference (s,d) has been processed, a later reference with   *)
(* the same (s,d) selects no second chain and creates no node, so the pair *)
(* accounts for at most one created node.                                  *)
C2_IdempotentRejoin ==
    /\ \A p, q \in DOMAIN jrefs :
          (p < q /\ Pair(jrefs[p]) = Pair(jrefs[q])) =>
              /\ outcomes[q] \in {"short", "no_pred"}
              /\ \A c \in created_at : c.pos # q
    /\ \A s, d \in Rels :
          Cardinality({c \in created_at : Pair(jrefs[c.pos]) = <<s, d>>}) <= 1

C2_Witness ==
    \E p, q \in DOMAIN jrefs :
        /\ p < q
        /\ Pair(jrefs[p]) = Pair(jrefs[q])
        /\ jrefs[p].src # jrefs[p].dst
        /\ outcomes[p] = "merge"
        /\ outcomes[q] = "short"
        /\ Len(join_nodes) = 1

(* join_chains after the iteration for a reference (src, dst) whose edge   *)
(* resolved to an inner join: None when pick_join_chains panics.           *)
chains_after(src, dst, chains, nfr) ==
    LET picked == pick_join_chains(src, dst, chains, nfr)
        resolved == [panic |-> FALSE, join_type |-> "Inner",
                     jp |-> Cond(<<src, dst>>, 0)]
    IN  IF picked.panic THEN None
        ELSE Some(match_second_chain(resolved, picked, join_nodes,
                                     node_count).join_chains)

SamePartition(f, g) ==
    \A T \in SUBSET Rels :
        Cardinality({i \in DOMAIN f : f[i].tables = T}) =
        Cardinality({i \in DOMAIN g : g[i].tables = T})

ResolvesConnected(src, dst, chains, nfr) ==
    LET picked == pick_join_chains(src, dst, chains, nfr)
    IN  ~picked.panic /\ picked.second_chain = None

C4_SelfJoinNoop ==
    [][ (/\ Len(jrefs') = Len(jrefs) + 1
         /\ jrefs'[Len(jrefs')].src = jrefs'[Len(jrefs')].dst)
        => /\ join_nodes' = join_nodes
           /\ node_count' = node_count
           /\ created_at' = created_at
           /\ outcomes'[Len(jrefs')] # "merge" ]_vars

C4_Witness ==
    \E p, q \in DOMAIN jrefs :
        /\ p < q
        /\ jrefs[p].src = jrefs[p].dst
        /\ jrefs[q].src = jrefs[q].dst
        /\ outcomes[p] = "short"
        /\ outcomes[q] = "short"
        /\ \A r \in 1..(p - 1) : jrefs[p].src \notin {jrefs[r].src, jrefs[r].dst}
        /\ \E r \in 1..(q - 1) :
              /\ outcomes[r] = "merge"
              /\ jrefs[q].src \in {jrefs[r].src, jrefs[r].dst}

Referenced(refs) == UNION {{refs[i].src, refs[i].dst} : i \in DOMAIN refs}

Adjacent(refs, u, v) ==
    \E i \in DOMAIN refs : {refs[i].src, refs[i].dst} = {u, v}

RECURSIVE Reach(_, _)
Reach(refs, S) ==
    LET T == S \cup {v \in Referenced(refs) : \E u \in S : Adjacent(refs, u, v)}
    IN  IF T = S THEN S ELSE Reach(refs, T)

(* a connected graph has exactly one component *)
Connected(refs) ==
    /\ Referenced(refs) # {}
    /\ \A u \in Referenced(refs) : Reach(refs, {u}) = Referenced(refs)

(* C5: when make_joins has processed a whole join order whose graph is     *)
(* connected, exactly one chain is live and its table set is the set of    *)
(* all referenced relations.                                               *)
C5_ConnectivityClosure ==
    (pc = "done" /\ Connected(jrefs)) =>
        /\ Len(join_chains) = 1
        /\ join_chains[1].tables = Referenced(jrefs)

C5_Witness ==
    /\ pc = "done"
    /\ Connected(jrefs)
    /\ Cardinality(Referenced(jrefs)) = 3
    /\ Len(join_nodes) = 2
    /\ \E p \in DOMAIN outcomes : outcomes[p] = "short"

(* C6: the table sets of any two distinct live chains are disjoint.        *)
C6_ChainsDisjoint ==
    \A i, j \in DOMAIN join_chains :
        i # j => join_chains[i].tables \cap join_chains[j].tables = {}

C6_Witness ==
    /\ pc = "loop"
    /\ Len(join_chains) >= 2
    /\ \E i \in DOMAIN join_chains : Cardinality(join_chains[i].tables) >= 2
    /\ outcomes[Len(outcomes)] = "merge"

(* C7: merge_chain returns a chain whose table set holds exactly the       *)
(* relations of either input, also when the inputs overlap, and whose      *)
(* terminal node is the supplied node.                                     *)
C7_MergeIsUnion ==
    merged # None =>
        /\ \A r \in Rels :
              r \in merged[1].out.tables <=>
                  (r \in merged[1].self.tables \/ r \in merged[1].other.tables)
        /\ merged[1].out.tables \subseteq Rels
        /\ merged[1].out.last_node = merged[1].node

C7_Witness ==
    /\ merged # None
    /\ merged[1].self.tables \cap merged[1].other.tables # {}
    /\ merged[1].self.tables \ merged[1].other.tables # {}
    /\ merged[1].other.tables \ merged[1].self.tables # {}
    /\ merged[1].node # merged[1].self.last_node
    /\ merged[1].node # merged[1].other.last_node

(* C8: the j-th created node (j = 0, 1, ...) is named                      *)
(* "{name}_n{start + j}"; the counter moves once per created node and not  *)
(* on other references, so the names are pairwise distinct.                *)
C8_CounterNames ==
    /\ node_count = start_count + Len(join_nodes)
    /\ Len(join_nodes) =
          Cardinality({p \in DOMAIN outcomes : outcomes[p] = "merge"})
    /\ \A j \in DOMAIN join_nodes :
          join_nodes[j].name =
              PlanName \o "_n" \o ToString(start_count + j - 1)
    /\ \A i, j \in DOMAIN join_nodes :
          i # j => join_nodes[i].name # join_nodes[j].name

C8_Witness ==
    /\ start_count = 1
    /\ Len(join_nodes) = 2
    /\ join_nodes[2].name = "q_n2"
    /\ \E p, q \in DOMAIN outcomes :
          p < q /\ outcomes[p] = "short" /\ outcomes[q] = "merge"

PosOf(node) == CHOOSE p \in 1..MaxRefs + 1 : [node |-> node, pos |-> p] \in created_at

Output == IF pc = "done" THEN result[1] ELSE join_nodes

(* C9: the output lists the created nodes in the order of their merges:    *)
(* every output node belongs to one reference of its own, the references   *)
(* of successive output nodes come at increasing positions of the join     *)
(* order, and a reference that creates no node has no entry.               *)
C9_OutputOrder ==
    /\ Len(Output) = Cardinality(created_at)
    /\ \A j \in DOMAIN Output :
          Cardinality({c \in created_at : c.node = Output[j]}) = 1
    /\ \A i, j \in DOMAIN Output :
          i < j => PosOf(Output[i]) < PosOf(Output[j])
    /\ \A c \in created_at :
          /\ c.pos \in DOMAIN jrefs
          /\ outcomes[c.pos] = "merge"
    /\ \A p \in DOMAIN jrefs :
          outcomes[p] = "merge" <=> \E c \in created_at : c.pos = p

C9_Witness ==
    /\ pc = "done"
    /\ Len(result[1]) = 2
    /\ outcomes = <<"merge", "short", "merge">>

Holders(chains, rel) == {i \in DOMAIN chains : rel \in chains[i].tables}

(* the reference needs a chain for a relation that no live chain holds and *)
(* that is not a key of node_for_rel                                       *)
NeedsMissing(jref, chains, nfr) ==
    LET srcTables == IF Holders(chains, jref.src) # {}
                     THEN chains[CHOOSE i \in Holders(chains, jref.src) : TRUE].tables
                     ELSE {jref.src}
    IN  \/ Holders(chains, jref.src) = {} /\ jref.src \notin DOMAIN nfr
        \/ /\ jref.dst \notin srcTables
           /\ Holders(chains, jref.dst) = {}
           /\ jref.dst \notin DOMAIN nfr

(* C10: a reference that needs a relation found neither in a live chain    *)
(* nor in node_for_rel aborts make_joins: nothing is returned, not even    *)
(* the nodes created so far.                                               *)
C10_MissingRelationFatal ==
    [][ /\ (/\ Len(jrefs') = Len(jrefs) + 1
            /\ NeedsMissing(jrefs'[Len(jrefs')], join_chains, node_for_rel))
           => (pc' = "panicked" /\ result' = None)
        /\ pc = "panicked" => (pc' = "panicked" /\ result' = None) ]_vars

C10_Witness ==
    /\ pc = "panicked"
    /\ outcomes[Len(outcomes)] \in {"no_src", "no_dst"}
    /\ join_nodes # <<>>
    /\ result = None

(* a step of the loop that took one more reference *)
Took == Len(jrefs') = Len(jrefs) + 1

Taken == jrefs'[Len(jrefs')]

(* C11: a reference that resolves to a group-by edge aborts make_joins at  *)
(* whatever position it comes: no node is created for it, no join kind is  *)
(* assumed, and nothing is returned.                                       *)
C11_GroupByFatal ==
    [][ (/\ Took
         /\ Pair(Taken) \in DOMAIN edges
         /\ edges[Pair(Taken)].kind = "GroupBy")
        => /\ pc' = "panicked"
           /\ outcomes'[Len(outcomes')] = "group_by"
           /\ join_nodes' = join_nodes
           /\ node_count' = node_count
           /\ created_at' = created_at
           /\ join_chains' = join_chains
           /\ result' = None ]_vars

C11_Witness ==
    /\ pc = "panicked"
    /\ Len(outcomes) >= 2
    /\ outcomes[Len(outcomes)] = "group_by"
    /\ outcomes[Len(outcomes) - 1] = "merge"
    /\ result = None

Reversed(jref) == JoinRef(jref.dst, jref.src, jref.index)

(* C12: when the query graph holds a join edge for the pair {s,d}, the     *)
(* reference (d,s,i) resolves to the same classification and the same      *)
(* predicate as (s,d,i), under whichever orientation the edge is stored.   *)
C12_UnorderedEdgeLookup ==
    \A p \in DOMAIN jrefs :
        (/\ Pair(Reversed(jrefs[p])) \in DOMAIN edges
         /\ edges[Pair(Reversed(jrefs[p]))].kind # "GroupBy")
        => /\ outcomes[p] # "no_edge"
           /\ from_join_ref(jrefs[p], edges) =
                 from_join_ref(Reversed(jrefs[p]), edges)

(* the terminal node of the chain the loop selects for rel *)
TerminalFor(chains, nfr, rel) ==
    IF Holders(chains, rel) # {}
    THEN chains[CHOOSE i \in Holders(chains, rel) : TRUE].last_node
    ELSE nfr[rel]

(* C13: the node created for a reference (s,d,i) has the terminal node of  *)
(* the chain of s as left input and that of the chain of d as right input  *)
(* (the leaf node for a fresh singleton), kind inner or left after the     *)
(* edge, and the i-th predicate of the edge; [(A,B,0)] from counter 0      *)
(* gives one node "q_n0" over node(A) and node(B), kind inner.             *)
C13_NodeConstruction ==
    [][ (Took /\ Len(join_nodes') = Len(join_nodes) + 1)
        => LET jn == join_nodes'[Len(join_nodes')]
               edge == edges[Pair(Taken)]
           IN  /\ jn.inner = "Join"
               /\ jn.ancestors =
                     <<TerminalFor(join_chains, node_for_rel, Taken.src),
                       TerminalFor(join_chains, node_for_rel, Taken.dst)>>
               /\ edge.kind = "Join" => jn.kind = "Inner"
               /\ edge.kind = "LeftJoin" => jn.kind = "Left"
               /\ jn.kind \in {"Inner", "Left"}
               /\ jn.jp = Some(edge.jps[Taken.index + 1])
               /\ (/\ jrefs = <<>>
                   /\ Taken = JoinRef("A", "B", 0)
                   /\ start_count = 0
                   /\ edge.kind = "Join")
                  => /\ jn.name = "q_n0"
                     /\ jn.ancestors = <<node_for_rel["A"], node_for_rel["B"]>>
                     /\ jn.kind = "Inner"
                     /\ join_nodes' = <<jn>> ]_vars

C13_Witness ==
    /\ Len(join_nodes) = 2
    /\ join_nodes[1].name = "q_n0"
    /\ join_nodes[1].kind = "Inner"
    /\ join_nodes[1].ancestors = <<BaseNode("A"), BaseNode("B")>>
    /\ join_nodes[2].kind = "Left"
    /\ join_nodes[2].ancestors = <<join_nodes[1], BaseNode("C")>>
    /\ join_nodes[2].jp = Some(Cond(<<"B", "C">>, 1))

Range(f) == {f[i] : i \in DOMAIN f}

Count(f, x) == Cardinality({i \in DOMAIN f : f[i] = x})

(* the same chains (table set and terminal node), whatever their order *)
SameBag(f, g) ==
    /\ Len(f) = Len(g)
    /\ \A x \in Range(f) \cup Range(g) : Count(f, x) = Count(g, x)

(* the chain the loop selects for rel: the live chain holding it, or the   *)
(* singleton made from its leaf node                                       *)
SelectedFor(chains, nfr, rel) ==
    IF Holders(chains, rel) # {}
    THEN chains[CHOOSE i \in Holders(chains, rel) : TRUE]
    ELSE JoinChain({rel}, nfr[rel])

Known(chains, nfr, rel) == Holders(chains, rel) # {} \/ rel \in DOMAIN nfr

(* C14: when the chain selected for the source already holds the           *)
(* destination, the step leaves the output and the counter unchanged and   *)
(* puts that chain back with the same table set and terminal node; if the  *)
(* chain was live before, the live chains are the same before and after.   *)
C14_ShortCircuitFrame ==
    [][ (/\ Took
         /\ ~from_join_ref(Taken, edges).panic
         /\ Known(join_chains, node_for_rel, Taken.src)
         /\ Taken.dst \in SelectedFor(join_chains, node_for_rel, Taken.src).tables)
        => LET sel == SelectedFor(join_chains, node_for_rel, Taken.src)
           IN  /\ pc' = "loop"
               /\ join_nodes' = join_nodes
               /\ node_count' = node_count
               /\ created_at' = created_at
               /\ sel \in Range(join_chains')
               /\ Holders(join_chains, Taken.src) # {}
                     => SameBag(join_chains, join_chains')
               /\ Holders(join_chains, Taken.src) = {}
                     => SameBag(Append(join_chains, sel), join_chains') ]_vars

C14_Witness ==
    /\ pc = "loop"
    /\ Len(join_chains) >= 2
    /\ Len(outcomes) >= 2
    /\ outcomes[Len(outcomes)] = "short"
    /\ outcomes[Len(outcomes) - 1] = "merge"
    /\ jrefs[Len(jrefs)].src # jrefs[Len(jrefs)].dst
    /\ \E i \in DOMAIN join_chains :
          {jrefs[Len(jrefs)].src, jrefs[Len(jrefs)].dst} \subseteq
              join_chains[i].tables

(* C15: a reference that creates a node leaves the active set equal to the *)
(* set before minus the (at most two) live chains selected for source and  *)
(* destination plus one merged chain; neither input chain is live          *)
(* afterwards and every chain holding neither endpoint is unchanged.       *)
C15_MergeFrame ==
    [][ (Took /\ Len(join_nodes') = Len(join_nodes) + 1)
        => LET sel == Holders(join_chains, Taken.src)
                          \cup Holders(join_chains, Taken.dst)
               left == SelectedFor(join_chains, node_for_rel, Taken.src)
               right == SelectedFor(join_chains, node_for_rel, Taken.dst)
               new == JoinChain(left.tables \cup right.tables,
                                join_nodes'[Len(join_nodes')])
               KeptCount(x) ==
                   Cardinality({i \in DOMAIN join_chains \ sel :
                                   join_chains[i] = x})
           IN  /\ Cardinality(sel) <= 2
               /\ Len(join_chains') = Len(join_chains) - Cardinality(sel) + 1
               /\ \A x \in Range(join_chains) \cup Range(join_chains') \cup {new} :
                     Count(join_chains', x) =
                         KeptCount(x) + (IF x = new THEN 1 ELSE 0)
               /\ left \notin Range(join_chains')
               /\ right \notin Range(join_chains')
               /\ \A i \in DOMAIN join_chains \ sel :
                     join_chains[i] \in Range(join_chains') ]_vars

C15_Witness ==
    /\ pc = "loop"
    /\ outcomes = <<"short", "short", "merge">>
    /\ Len(join_chains) = 2
    /\ jrefs[1].src = jrefs[3].src
    /\ jrefs[2].src \notin {jrefs[3].src, jrefs[3].dst}

Components(refs) == {Reach(refs, {u}) : u \in Referenced(refs)}

(* C16: when make_joins returns, the table sets of the surviving chains    *)
(* are exactly the vertex sets of the connected components of the graph of *)
(* the processed references.                                               *)
C16_ChainsAreComponents ==
    pc = "done" =>
        /\ {join_chains[i].tables : i \in DOMAIN join_chains} = Components(jrefs)
        /\ Len(join_chains) = Cardinality(Components(jrefs))

C16_Witness ==
    /\ pc = "done"
    /\ Cardinality(Components(jrefs)) = 2
    /\ \E T \in Components(jrefs) : Cardinality(T) = 2
    /\ Len(join_nodes) = 1

(* every ordering of the active list *)
Orderings(f) == {g \in [DOMAIN f -> Range(f)] : SameBag(f, g)}

(* A planner that keeps the chains in a map from relation to chain.        *)
IndexOf(chains) ==
    [r \in UNION {c.tables : c \in Range(chains)} |->
        CHOOSE c \in Range(chains) : r \in c.tables]

IndexedStep(resolved, src, dst, index, nfr, nodes, count) ==
    IF src \notin DOMAIN index /\ src \notin DOMAIN nfr THEN Panic("no_src")
    ELSE LET left == IF src \in DOMAIN index THEN index[src]
                     ELSE JoinChain({src}, nfr[src])
         IN  IF dst \in left.tables
             THEN [panic |-> FALSE,
                   index |-> [r \in DOMAIN index \cup left.tables |-> 
                                 IF r \in left.tables THEN left ELSE index[r]],
                   join_nodes |-> nodes, node_count |-> count]
             ELSE IF dst \notin DOMAIN index /\ dst \notin DOMAIN nfr
                  THEN Panic("no_dst")
             ELSE LET right == IF dst \in DOMAIN index THEN index[dst]
                               ELSE JoinChain({dst}, nfr[dst])
                      jn == [name |-> PlanName \o "_n" \o ToString(count),
                             inner |-> "Join", kind |-> resolved.join_type,
                             jp |-> Some(resolved.jp),
                             ancestors |-> <<left.last_node, right.last_node>>]
                      new == JoinChain(left.tables \cup right.tables, jn)
                  IN  [panic |-> FALSE,
                       index |-> [r \in DOMAIN index \cup new.tables |->
                                     IF r \in new.tables THEN new ELSE index[r]],
                       join_nodes |-> Append(nodes, jn),
                       node_count |-> count + 1]

(* C17: at every chain selection at most one live chain holds the target   *)
(* relation, so for every ordering of the active list the iteration gives  *)
(* the same output, counter and chains (up to order), and a planner that   *)
(* indexes chains by relation gives the same output and chains.            *)
C17_ScanOrderIndependent ==
    pc = "loop" =>
        /\ \A r \in Rels : Cardinality(Holders(join_chains, r)) <= 1
        /\ \A jref \in JoinRefs :
              LET resolved == from_join_ref(jref, edges)
                  a == pick_join_chains(jref.src, jref.dst, join_chains,
                                        node_for_rel)
                  sa == match_second_chain(resolved, a, join_nodes, node_count)
                  x == IndexedStep(resolved, jref.src, jref.dst,
                                   IndexOf(join_chains), node_for_rel,
                                   join_nodes, node_count)
              IN  ~resolved.panic =>
                    /\ \A g \in Orderings(join_chains) :
                          LET b == pick_join_chains(jref.src, jref.dst, g,
                                                    node_for_rel)
                              sb == match_second_chain(resolved, b, join_nodes,
                                                       node_count)
                          IN  /\ a.panic = b.panic
                              /\ a.panic => a.why = b.why
                              /\ ~a.panic =>
                                    /\ sa.join_nodes = sb.join_nodes
                                    /\ sa.node_count = sb.node_count
                                    /\ SameBag(sa.join_chains, sb.join_chains)
                    /\ a.panic = x.panic
                    /\ a.panic => a.why = x.why
                    /\ ~a.panic =>
                          /\ sa.join_nodes = x.join_nodes
                          /\ sa.node_count = x.node_count
                          /\ IndexOf(sa.join_chains) = x.index

C17_Witness ==
    /\ pc = "loop"
    /\ Len(jrefs) = 3
    /\ Len(join_chains) = 2
    /\ jrefs[1].src = jrefs[3].src
    /\ jrefs[1].src # jrefs[2].src
    /\ outcomes[2] = "short"
    /\ outcomes[3] = "short"
    /\ join_nodes # <<>>
    /\ jrefs[2].src \in join_chains[1].tables
    /\ jrefs[1].src \in join_chains[2].tables

(* C18: the edge and predicate are resolved before any chain is selected:  *)
(* a reference whose (src, dst) has no entry in the query graph, or whose  *)
(* index is past the end of the entry's predicates, aborts make_joins with *)
(* the active set untouched, also for a self-join or for endpoints that    *)
(* are already in one chain.                                               *)
C18_ResolveBeforePick ==
    [][ (/\ Took
         /\ \/ Pair(Taken) \notin DOMAIN edges
            \/ /\ edges[Pair(Taken)].kind # "GroupBy"
               /\ Taken.index >= Len(edges[Pair(Taken)].jps))
        => /\ pc' = "panicked"
           /\ outcomes'[Len(outcomes')] \in {"no_edge", "no_pred"}
           /\ join_chains' = join_chains
           /\ join_nodes' = join_nodes
           /\ node_count' = node_count
           /\ result' = None ]_vars

C18_Witness ==
    /\ pc = "panicked"
    /\ outcomes[Len(outcomes)] \in {"no_edge", "no_pred"}
    /\ join_nodes # <<>>
    /\ jrefs[Len(jrefs)].src # jrefs[Len(jrefs)].dst
    /\ \E i \in DOMAIN join_chains :
          {jrefs[Len(jrefs)].src, jrefs[Len(jrefs)].dst} \subseteq
              join_chains[i].tables

LiveRels == UNION {join_chains[i].tables : i \in DOMAIN join_chains}

(* C19: after every processed reference the number of output nodes is the  *)
(* number of relations held by live chains minus the number of live        *)
(* chains, and the counter is the start value plus the output length; a    *)
(* connected join order over n relations returns n - 1 nodes.              *)
C19_NodeCount ==
    pc \in {"loop", "done"} =>
        /\ Len(join_nodes) = Cardinality(LiveRels) - Len(join_chains)
        /\ node_count = start_count + Len(join_nodes)
        /\ (pc = "done" /\ Connected(jrefs)) =>
              Len(result[1]) = Cardinality(Referenced(jrefs)) - 1

C19_Witness ==
    /\ pc = "done"
    /\ Connected(jrefs)
    /\ Cardinality(Referenced(jrefs)) = 3
    /\ Len(jrefs) = 3
    /\ Len(result[1]) = 2
    /\ start_count = 1
    /\ node_count = 3

(* the created nodes whose reference touches a relation of the table set *)
Involving(tables) ==
    {c \in created_at : {jrefs[c.pos].src, jrefs[c.pos].dst} \cap tables # {}}

(* C20: a live chain with one relation ends in that relation's leaf node;  *)
(* a live chain with two or more relations ends in the most recently       *)
(* created join node whose merge involved its relations; no created node   *)
(* ends two live chains; and for a connected join order the last output    *)
(* node ends the one surviving chain.                                      *)
C20_TerminalNode ==
    /\ \A i \in DOMAIN join_chains :
          LET c == join_chains[i]
          IN  /\ Cardinality(c.tables) = 1 =>
                    \E r \in c.tables : c.last_node = node_for_rel[r]
              /\ Cardinality(c.tables) >= 2 =>
                    /\ c.last_node \in Range(join_nodes)
                    /\ \E m \in Involving(c.tables) :
                          /\ m.node = c.last_node
                          /\ \A o \in Involving(c.tables) : o.pos <= m.pos
    /\ \A n \in Range(join_nodes) :
          Cardinality({i \in DOMAIN join_chains :
                          join_chains[i].last_node = n}) <= 1
    /\ (pc = "done" /\ Connected(jrefs) /\ result[1] # <<>>) =>
          result[1][Len(result[1])] = join_chains[1].last_node

C20_Witness ==
    /\ pc = "done"
    /\ Connected(jrefs)
    /\ Len(result[1]) = 2
    /\ Len(join_chains) = 1
    /\ join_chains[1].last_node = result[1][2]
    /\ result[1][2].ancestors[2] = result[1][1]

====
